---- MODULE Spec2Model ----
(***************************************************************************)
(* Model of the quorum lock of lock/red_lock.go: the constructor New, and  *)
(* the goroutines of one Acquire or Release round (caller, observer,       *)
(* one worker per client, the wg.Wait waiter) over a set of stores that    *)
(* hold or do not hold the one key the rounds are about.                   *)
(*                                                                         *)
(* Every action is one access to a shared object (the gate channel, the    *)
(* atomic counter, a store, the result stream, the done channel, the       *)
(* context); a goroutine's local steps are folded into the access that     *)
(* precedes them.  The deferred wg.Done() of a worker is folded into the   *)
(* worker's last step: only the waiter reads the WaitGroup, so a late      *)
(* wg.Done is the same as a late wg.Wait.                                  *)
(*                                                                         *)
(* An unrecovered panic of any goroutine ends the process: once panicked   *)
(* is set no action is enabled.                                            *)
(***************************************************************************)
EXTENDS Integers, FiniteSets, Sequences, TLC

\* Largest number of clients (stores) of the coordinator.
MaxStores == 3

\* maxConcurrencyAllowed := 10
MaxConcurrencyAllowed == 10
\* requestSem: make(chan struct{}) is a channel without a buffer
RequestSemCap == 0

AllStores == 1..MaxStores
\* The calls made on the coordinator: a first call and a second one.  Two
\* calls are what the claims about several calls need: "at most one of a set
\* of calls succeeds" is "no two of them succeed", and a round trip is an
\* Acquire followed by a Release.
Rounds == {1, 2}

\* Permits the gate of the coordinator holds when the first round starts: all
\* of maxConcurrencyAllowed, or the one that callers outside the model and
\* earlier rounds have left.
FreePermits == {1, MaxConcurrencyAllowed}

ErrUnableToAcquireLock == "ErrUnableToAcquireLock"
ErrUnableToReleaseLock == "ErrUnableToReleaseLock"
ErrContextWithDeadlineNeeded == "ErrContextWithDeadlineNeeded"
\* ctx.Err(): context.DeadlineExceeded or context.Canceled
CtxErr == "ctx.Err"

VARIABLES
    newPc,        \* New: "start", "blocked" (in a send of its loop), "returned"
    newI,         \* New: loop variable i
    n,            \* len(r.clients)
    permits,      \* permits the gate r.requestSem was given
    requestSem,   \* permits in r.requestSem
    store,        \* store[s]: the key exists on store s
    op,           \* op[r]: "none", "Acquire", "Release"
    deadline,     \* deadline[r]: ctx.Deadline() reports ok
    ctxDone,      \* ctxDone[r]: ctx.Done() is closed
    ctxEarly,     \* ctxEarly[r]: ctx fired with the tally below quorum and a worker unfinished
    pc,           \* pc[r]: caller, "idle", "select", "returned"
    ret,          \* ret[r]: returned error, "none" before the return
    count,        \* acquiredCount / releasedCount
    done,         \* done[r]: channel done is closed
    streamClosed, \* acquireActionStream is closed
    obs,          \* observer goroutine: "none", "range", "add", "close", "exit"
    wpc,          \* wpc[r][s]: worker goroutine of client s
    wval,         \* wval[r][s]: "none", or "true"/"false": the store call created/deleted the key
    waiter,       \* wg.Wait goroutine: "none", "wait", "select", "exit"
    panicked      \* "none", or the message of the panic that ended the process

vars == <<newPc, newI, n, permits, requestSem, store, op, deadline, ctxDone, ctxEarly, pc,
          ret, count, done, streamClosed, obs, wpc, wval, waiter, panicked>>

newVars == <<newPc, newI>>
callVars == <<op, deadline>>

Min(a, b) == IF a < b THEN a ELSE b

\* A quorum of half the clients, without the + 1.
Quorum_Half == n \div 2

\* quorum = len(r.clients)/2 + 1
Quorum == n \div 2 + 1

Clients == 1..n

\* Number of sends of New's loop that complete: no goroutine receives from
\* the channel while New runs, so a send completes only into a free buffer slot.
NewSent == Min(RequestSemCap, MaxConcurrencyAllowed)

\* Stores that returned true (SetNX) or 1 (Del) to round r.
Succeeded(r) == {s \in Clients : wval[r][s] = "true"}

\* wg.Wait() returns: every worker has run its deferred wg.Done()
AllWorkersDone(r) == \A s \in Clients : wpc[r][s] = "finished"

Running == panicked = "none"

Init ==
    /\ newPc = "start"
    /\ newI = 0
    /\ n \in 0..MaxStores
    /\ permits \in FreePermits
    /\ requestSem = permits
    /\ store \in [AllStores -> BOOLEAN]
    /\ \A s \in AllStores : s > n => store[s] = FALSE
    /\ op = [r \in Rounds |-> "none"]
    /\ deadline = [r \in Rounds |-> FALSE]
    /\ ctxDone = [r \in Rounds |-> FALSE]
    /\ ctxEarly = [r \in Rounds |-> FALSE]
    /\ pc = [r \in Rounds |-> "idle"]
    /\ ret = [r \in Rounds |-> "none"]
    /\ count = [r \in Rounds |-> 0]
    /\ done = [r \in Rounds |-> FALSE]
    /\ streamClosed = [r \in Rounds |-> FALSE]
    /\ obs = [r \in Rounds |-> "none"]
    /\ wpc = [r \in Rounds |-> [s \in AllStores |-> "none"]]
    /\ wval = [r \in Rounds |-> [s \in AllStores |-> "none"]]
    /\ waiter = [r \in Rounds |-> "none"]
    /\ panicked = "none"

----------------------------------------------------------------------------
\* New: builds the redLock and fills requestSem with maxConcurrencyAllowed
\* permits; it returns once the loop has made all its sends.
New ==
    /\ newPc = "start"
    /\ newI' = NewSent
    /\ newPc' = IF NewSent = MaxConcurrencyAllowed THEN "returned" ELSE "blocked"
    /\ UNCHANGED <<n, permits, requestSem, store, op, deadline, ctxDone, ctxEarly, pc, ret,
                   count, done, streamClosed, obs, wpc, wval, waiter, panicked>>

----------------------------------------------------------------------------
\* The caller's part of Acquire and Release up to the select.

CanCall(r) ==
    /\ Running
    /\ pc[r] = "idle"

Called(r, name, d) ==
    /\ op' = [op EXCEPT ![r] = name]
    /\ deadline' = [deadline EXCEPT ![r] = d]

Spawned(r) ==
    /\ pc' = [pc EXCEPT ![r] = "select"]
    /\ wpc' = [wpc EXCEPT ![r] = [s \in AllStores |->
                                    IF s \in Clients THEN "sem" ELSE "none"]]
    /\ waiter' = [waiter EXCEPT ![r] = "wait"]

\* Acquire without the check of ctx.Deadline().
Acquire_NoDeadlineCheck(r, d) ==
    /\ CanCall(r)
    /\ Called(r, "Acquire", d)
    /\ Spawned(r)
    /\ obs' = [obs EXCEPT ![r] = "range"]
    /\ UNCHANGED <<ret, streamClosed>>
    /\ UNCHANGED <<newVars, n, permits, requestSem, store, ctxDone, ctxEarly, count, done,
                   wval, panicked>>

\* Acquire, lines 38-98: the deadline check, then the observer, one worker
\* per client and the waiter are started.
Acquire(r, d) ==
    /\ CanCall(r)
    /\ Called(r, "Acquire", d)
    /\ IF ~d
       THEN /\ pc' = [pc EXCEPT ![r] = "returned"]
            /\ ret' = [ret EXCEPT ![r] = ErrContextWithDeadlineNeeded]
            /\ streamClosed' = [streamClosed EXCEPT ![r] = TRUE]
            /\ UNCHANGED <<obs, wpc, waiter>>
       ELSE /\ Spawned(r)
            /\ obs' = [obs EXCEPT ![r] = "range"]
            /\ UNCHANGED <<ret, streamClosed>>
    /\ UNCHANGED <<newVars, n, permits, requestSem, store, ctxDone, ctxEarly, count, done, wval,
                   panicked>>

\* Release, lines 114-160.
Release(r, d) ==
    /\ CanCall(r)
    /\ Called(r, "Release", d)
    /\ IF ~d
       THEN /\ pc' = [pc EXCEPT ![r] = "returned"]
            /\ ret' = [ret EXCEPT ![r] = ErrContextWithDeadlineNeeded]
            /\ UNCHANGED <<wpc, waiter>>
       ELSE /\ Spawned(r)
            /\ UNCHANGED ret
    /\ UNCHANGED <<newVars, n, permits, requestSem, store, ctxDone, ctxEarly, count, done,
                   streamClosed, obs, wval, panicked>>

\* The context of round r is cancelled or its deadline passes.
CtxFire(r) ==
    /\ Running
    /\ deadline[r]
    /\ ~ctxDone[r]
    /\ pc[r] = "select" \/ waiter[r] \in {"wait", "select"}
    /\ ctxDone' = [ctxDone EXCEPT ![r] = TRUE]
    /\ ctxEarly' = [ctxEarly EXCEPT ![r] = count[r] < Quorum /\ ~AllWorkersDone(r)]
    /\ UNCHANGED <<newVars, n, permits, requestSem, store, callVars, pc, ret, count,
                   done, streamClosed, obs, wpc, wval, waiter, panicked>>

----------------------------------------------------------------------------
\* Workers.

SetW(r, s, v) == wpc' = [wpc EXCEPT ![r][s] = v]

\* A worker that goes on without waiting for a permit.
WorkerSem_NoWait(r, s) ==
    /\ Running
    /\ wpc[r][s] = "sem"
    /\ requestSem' = IF requestSem > 0 THEN requestSem - 1 ELSE 0
    /\ SetW(r, s, "load")
    /\ UNCHANGED <<newVars, n, permits, store, callVars, ctxDone, ctxEarly, pc,
                   ret, count, done, streamClosed, obs, wval, waiter, panicked>>

\* <-r.requestSem
WorkerSem(r, s) ==
    /\ Running
    /\ wpc[r][s] = "sem"
    /\ requestSem > 0
    /\ requestSem' = requestSem - 1
    /\ SetW(r, s, "load")
    /\ UNCHANGED <<newVars, n, permits, store, callVars, ctxDone, ctxEarly, ctxEarly, pc, ret, count, done,
                   streamClosed, obs, wval, waiter, panicked>>

\* if acquiredCount.Load() == int32(quorum) / releasedCount.Load() == ...
WorkerLoad(r, s) ==
    /\ Running
    /\ wpc[r][s] = "load"
    /\ SetW(r, s, IF count[r] = Quorum THEN "closedone" ELSE "call")
    /\ UNCHANGED <<newVars, n, permits, requestSem, store, callVars, ctxDone, ctxEarly, ctxEarly, pc, ret,
                   count, done, streamClosed, obs, wval, waiter, panicked>>

\* close(done); return  -- of the short circuit, and of the Release worker
\* that reached quorum.  The permit is not sent back on this path.
WorkerCloseDone(r, s) ==
    /\ Running
    /\ wpc[r][s] = "closedone"
    /\ IF done[r]
       THEN /\ panicked' = "close of closed channel"
            /\ UNCHANGED <<done, wpc>>
       ELSE /\ done' = [done EXCEPT ![r] = TRUE]
            /\ SetW(r, s, "finished")
            /\ UNCHANGED panicked
    /\ UNCHANGED <<newVars, n, permits, requestSem, store, callVars, ctxDone, ctxEarly, ctxEarly, pc, ret,
                   count, streamClosed, obs, wval, waiter>>

\* A store call that sets the key whether or not it exists (SET instead of SETNX).
WorkerSetNX_Overwrite(r, s, ok) ==
    /\ Running
    /\ op[r] = "Acquire"
    /\ wpc[r][s] = "call"
    /\ IF ok
       THEN /\ store' = [store EXCEPT ![s] = TRUE]
            /\ wval' = [wval EXCEPT ![r][s] = "true"]
       ELSE /\ wval' = [wval EXCEPT ![r][s] = "false"]
            /\ UNCHANGED store
    /\ SetW(r, s, "send")
    /\ UNCHANGED <<newVars, n, permits, requestSem, callVars, ctxDone, ctxEarly, pc, ret,
                   count, done, streamClosed, obs, waiter, panicked>>

\* c.SetNX(ctx, key, "1", r.lockDuration).Val(): true iff this call created
\* the key; false when the key exists or the call fails (ok = FALSE).
WorkerSetNX(r, s, ok) ==
    /\ Running
    /\ op[r] = "Acquire"
    /\ wpc[r][s] = "call"
    /\ IF ok /\ ~store[s]
       THEN /\ store' = [store EXCEPT ![s] = TRUE]
            /\ wval' = [wval EXCEPT ![r][s] = "true"]
       ELSE /\ wval' = [wval EXCEPT ![r][s] = "false"]
            /\ UNCHANGED store
    /\ SetW(r, s, "send")
    /\ UNCHANGED <<newVars, n, permits, requestSem, callVars, ctxDone, ctxEarly, ctxEarly, pc, ret, count,
                   done, streamClosed, obs, waiter, panicked>>

\* An observer that counts every outcome, not only the acquired ones.
WorkerSend_CountAll(r, s) ==
    /\ Running
    /\ wpc[r][s] = "send"
    /\ ~streamClosed[r]
    /\ obs[r] = "range"
    /\ obs' = [obs EXCEPT ![r] = "add"]
    /\ SetW(r, s, "put")
    /\ UNCHANGED <<newVars, n, permits, requestSem, store, callVars, ctxDone, ctxEarly, pc,
                   ret, count, done, streamClosed, wval, waiter, panicked>>

\* acquireActionStream <- acquireActionOutcome{...} meeting the observer's
\* range: the channel has no buffer, the send completes with the receive.
WorkerSend(r, s) ==
    /\ Running
    /\ wpc[r][s] = "send"
    /\ ~streamClosed[r]
    /\ obs[r] = "range"
    /\ obs' = [obs EXCEPT ![r] = IF wval[r][s] = "true" THEN "add" ELSE "range"]
    /\ SetW(r, s, "put")
    /\ UNCHANGED <<newVars, n, permits, requestSem, store, callVars, ctxDone, ctxEarly, ctxEarly, pc, ret,
                   count, done, streamClosed, wval, waiter, panicked>>

\* A send on acquireActionStream after Acquire's deferred close of it.
WorkerSendClosed(r, s) ==
    /\ Running
    /\ wpc[r][s] = "send"
    /\ streamClosed[r]
    /\ panicked' = "send on closed channel"
    /\ UNCHANGED <<newVars, n, permits, requestSem, store, callVars, ctxDone, ctxEarly, ctxEarly, pc, ret,
                   count, done, streamClosed, obs, wpc, wval, waiter>>

\* A worker that counts a reply of 0 (key already absent) as a deletion.
WorkerDel_CountAbsent(r, s, ok) ==
    /\ Running
    /\ op[r] = "Release"
    /\ wpc[r][s] = "call"
    /\ IF ok /\ store[s]
       THEN /\ store' = [store EXCEPT ![s] = FALSE]
            /\ wval' = [wval EXCEPT ![r][s] = "true"]
       ELSE /\ wval' = [wval EXCEPT ![r][s] = "false"]
            /\ UNCHANGED store
    /\ SetW(r, s, "add")
    /\ UNCHANGED <<newVars, n, permits, requestSem, callVars, ctxDone, ctxEarly, pc, ret,
                   count, done, streamClosed, obs, waiter, panicked>>

\* client.Del(ctx, key).Val(): 1 iff this call deleted the key.
WorkerDel(r, s, ok) ==
    /\ Running
    /\ op[r] = "Release"
    /\ wpc[r][s] = "call"
    /\ IF ok /\ store[s]
       THEN /\ store' = [store EXCEPT ![s] = FALSE]
            /\ wval' = [wval EXCEPT ![r][s] = "true"]
            /\ SetW(r, s, "add")
       ELSE /\ wval' = [wval EXCEPT ![r][s] = "false"]
            /\ SetW(r, s, "put")
            /\ UNCHANGED store
    /\ UNCHANGED <<newVars, n, permits, requestSem, callVars, ctxDone, ctxEarly, ctxEarly, pc, ret, count,
                   done, streamClosed, obs, waiter, panicked>>

\* if releasedCount.Add(1) == int32(quorum)
WorkerAdd(r, s) ==
    /\ Running
    /\ wpc[r][s] = "add"
    /\ count' = [count EXCEPT ![r] = @ + 1]
    /\ SetW(r, s, IF count[r] + 1 = Quorum THEN "closedone" ELSE "put")
    /\ UNCHANGED <<newVars, n, permits, requestSem, store, callVars, ctxDone, ctxEarly, ctxEarly, pc, ret,
                   done, streamClosed, obs, wval, waiter, panicked>>

\* r.requestSem <- struct{}{}, then the deferred wg.Done()
WorkerPut(r, s) ==
    /\ Running
    /\ wpc[r][s] = "put"
    /\ requestSem' = requestSem + 1
    /\ SetW(r, s, "finished")
    /\ UNCHANGED <<newVars, n, permits, store, callVars, ctxDone, ctxEarly, ctxEarly, pc, ret, count, done,
                   streamClosed, obs, wval, waiter, panicked>>

----------------------------------------------------------------------------
\* Observer of Acquire.

\* newVal := acquiredCount.Add(1); if newVal == int32(quorum)
ObserverAdd(r) ==
    /\ Running
    /\ obs[r] = "add"
    /\ count' = [count EXCEPT ![r] = @ + 1]
    /\ obs' = [obs EXCEPT ![r] = IF count[r] + 1 = Quorum THEN "close" ELSE "range"]
    /\ UNCHANGED <<newVars, n, permits, requestSem, store, callVars, ctxDone, ctxEarly, ctxEarly, pc, ret,
                   done, streamClosed, wpc, wval, waiter, panicked>>

\* close(done); return
ObserverClose(r) ==
    /\ Running
    /\ obs[r] = "close"
    /\ IF done[r]
       THEN /\ panicked' = "close of closed channel"
            /\ UNCHANGED <<done, obs>>
       ELSE /\ done' = [done EXCEPT ![r] = TRUE]
            /\ obs' = [obs EXCEPT ![r] = "exit"]
            /\ UNCHANGED panicked
    /\ UNCHANGED <<newVars, n, permits, requestSem, store, callVars, ctxDone, ctxEarly, ctxEarly, pc, ret,
                   count, streamClosed, wpc, wval, waiter>>

\* The range loop ends when acquireActionStream is closed.
ObserverEnd(r) ==
    /\ Running
    /\ obs[r] = "range"
    /\ streamClosed[r]
    /\ obs' = [obs EXCEPT ![r] = "exit"]
    /\ UNCHANGED <<newVars, n, permits, requestSem, store, callVars, ctxDone, ctxEarly, ctxEarly, pc, ret,
                   count, done, streamClosed, wpc, wval, waiter, panicked>>

----------------------------------------------------------------------------
\* Waiter.

\* A waiter that does not wait for the workers.
WaiterWait_NoWait(r) ==
    /\ Running
    /\ waiter[r] = "wait"
    /\ waiter' = [waiter EXCEPT ![r] = "select"]
    /\ UNCHANGED <<newVars, n, permits, requestSem, store, callVars, ctxDone, ctxEarly, pc,
                   ret, count, done, streamClosed, obs, wpc, wval, panicked>>

\* wg.Wait()
WaiterWait(r) ==
    /\ Running
    /\ waiter[r] = "wait"
    /\ AllWorkersDone(r)
    /\ waiter' = [waiter EXCEPT ![r] = "select"]
    /\ UNCHANGED <<newVars, n, permits, requestSem, store, callVars, ctxDone, ctxEarly, ctxEarly, pc, ret,
                   count, done, streamClosed, obs, wpc, wval, panicked>>

\* select { case <-ctx.Done(): return; case <-done: return; default: close(done) }
WaiterSelect(r) ==
    /\ Running
    /\ waiter[r] = "select"
    /\ waiter' = [waiter EXCEPT ![r] = "exit"]
    /\ done' = [done EXCEPT ![r] = IF ctxDone[r] THEN @ ELSE TRUE]
    /\ UNCHANGED <<newVars, n, permits, requestSem, store, callVars, ctxDone, ctxEarly, ctxEarly, pc, ret,
                   count, streamClosed, obs, wpc, wval, panicked>>

----------------------------------------------------------------------------
\* The caller's select.

Return(r, e) ==
    /\ pc' = [pc EXCEPT ![r] = "returned"]
    /\ ret' = [ret EXCEPT ![r] = e]
    /\ streamClosed' = [streamClosed EXCEPT ![r] = (op[r] = "Acquire")]
    /\ UNCHANGED <<newVars, n, permits, requestSem, store, callVars, ctxDone, ctxEarly, count,
                   done, obs, wpc, wval, waiter, panicked>>

\* case <-ctx.Done(): return ctx.Err()
SelectCtx(r) ==
    /\ Running
    /\ pc[r] = "select"
    /\ ctxDone[r]
    /\ Return(r, CtxErr)

\* case <-done: the counter is compared with quorum
SelectDone(r) ==
    /\ Running
    /\ pc[r] = "select"
    /\ done[r]
    /\ Return(r, IF count[r] = Quorum THEN "nil"
                 ELSE IF op[r] = "Acquire" THEN ErrUnableToAcquireLock
                 ELSE ErrUnableToReleaseLock)

----------------------------------------------------------------------------
\* The steps of the goroutines both kinds of round have.
CommonStep(r) ==
    \/ \E s \in AllStores : WorkerSem(r, s)
    \/ \E s \in AllStores : WorkerLoad(r, s)
    \/ \E s \in AllStores : WorkerCloseDone(r, s)
    \/ \E s \in AllStores : WorkerPut(r, s)
    \/ WaiterWait(r)
    \/ WaiterSelect(r)
    \/ SelectDone(r)

\* The context fires, and the caller's select takes that case.
CtxStep(r) ==
    \/ CtxFire(r)
    \/ SelectCtx(r)

AcquireStep(r) ==
    \/ \E s \in AllStores, ok \in BOOLEAN : WorkerSetNX(r, s, ok)
    \/ \E s \in AllStores : WorkerSend(r, s)
    \/ \E s \in AllStores : WorkerSendClosed(r, s)
    \/ ObserverAdd(r)
    \/ ObserverClose(r)
    \/ ObserverEnd(r)

ReleaseStep(r) ==
    \/ \E s \in AllStores, ok \in BOOLEAN : WorkerDel(r, s, ok)
    \/ \E s \in AllStores : WorkerAdd(r, s)

\* One call, Acquire or Release, on the coordinator; and the constructor.
Next ==
    \/ New
    \/ CtxStep(1)
    \/ \E d \in BOOLEAN : Acquire(1, d)
    \/ \E d \in BOOLEAN : Release(1, d)
    \/ CommonStep(1)
    \/ AcquireStep(1)
    \/ ReleaseStep(1)

Spec == Init /\ [][Next]_vars

\* Two callers of Acquire on the same key of a coordinator with one, two or
\* three clients, the second one calling at any time after the first one has
\* called.  No store loses the key (no lease expires and nobody calls Release)
\* and the contexts do not fire.
SecondAcquire(d) ==
    /\ pc[1] # "idle"
    /\ Acquire(2, d)

NextMutex ==
    \/ \E d \in BOOLEAN : Acquire(1, d)
    \/ \E d \in BOOLEAN : SecondAcquire(d)
    \/ \E r \in Rounds : CommonStep(r)
    \/ \E r \in Rounds : AcquireStep(r)

InitMutex ==
    /\ Init
    /\ requestSem = MaxConcurrencyAllowed
    /\ n \in {1, 2, 3}

SpecMutex == InitMutex /\ [][NextMutex]_vars

\* The goroutines of the call are scheduled and its store calls return: a
\* step of the round that stays possible is taken.  Nothing makes a context
\* fire.
SpecFair ==
    /\ Spec
    /\ WF_vars(CommonStep(1) \/ SelectCtx(1) \/ AcquireStep(1) \/ ReleaseStep(1))

\* An Acquire that returned nil followed, by the same caller with the same
\* context, by a Release (README, Usage); every store answers the Del and the
\* context does not fire.
ReleaseAfterAcquire ==
    /\ ret[1] = "nil"
    /\ Release(2, TRUE)

NextRoundTrip ==
    \/ Acquire(1, TRUE)
    \/ ReleaseAfterAcquire
    \/ \E r \in Rounds : CommonStep(r)
    \/ AcquireStep(1)
    \/ \E s \in AllStores : WorkerDel(2, s, TRUE)
    \/ \E s \in AllStores : WorkerAdd(2, s)

SpecRoundTrip == Init /\ [][NextRoundTrip]_vars

\* Two calls of either kind, at any time relative to each other, on a
\* coordinator whose gate holds one permit; the contexts do not fire.
SecondCall(d) ==
    /\ pc[1] # "idle"
    /\ Acquire(2, d) \/ Release(2, d)

NextGate ==
    \/ \E d \in BOOLEAN : Acquire(1, d)
    \/ \E d \in BOOLEAN : Release(1, d)
    \/ \E d \in BOOLEAN : SecondCall(d)
    \/ \E r \in Rounds : CommonStep(r)
    \/ \E r \in Rounds : AcquireStep(r)
    \/ \E r \in Rounds : ReleaseStep(r)

InitGate ==
    /\ Init
    /\ permits = 1
    /\ n \in 1..MaxStores

SpecGate == InitGate /\ [][NextGate]_vars

----------------------------------------------------------------------------
\* Claims.

Returned(r) == pc[r] = "returned"

\* The context of the call has a deadline and has not fired.
CtxQuiet(r) == deadline[r] /\ ~ctxDone[r]

\* C1: with stores whose SetNX is an atomic set-if-absent, and no store
\* losing the key, no two Acquire calls on the key both return nil.
C1_MutualExclusion == ~(ret[1] = "nil" /\ ret[2] = "nil")

C1_Witness ==
    /\ n = 3
    /\ ret[1] = "nil"
    /\ ret[2] = ErrUnableToAcquireLock
    /\ Succeeded(2) # {}

\* C2: New returns, and the gate of the coordinator it returns holds
\* maxConcurrencyAllowed (10) permits.
C2_NewReturns ==
    newPc # "start" => (newPc = "returned" /\ newI = MaxConcurrencyAllowed)

\* C3: an Acquire returns nil only if at least quorum distinct stores answered
\* true to its SetNX; the tally never counts a store that answered false or
\* has not delivered an answer.
C3_AcquireSound ==
    \A r \in Rounds : op[r] = "Acquire" =>
        /\ ret[r] = "nil" => Cardinality(Succeeded(r)) >= Quorum
        /\ count[r] <= Cardinality({s \in Succeeded(r) :
                                      wpc[r][s] \in {"put", "finished"}})

C3_Witness ==
    /\ op[1] = "Acquire"
    /\ ret[1] = "nil"
    /\ n = 3
    /\ \E s \in Clients : wval[1][s] = "false"

\* C4: an Acquire whose context has a deadline and has not fired, and to
\* which at least quorum stores answered true, returns nil.
C4_AcquireComplete ==
    (op[1] = "Acquire" /\ Returned(1) /\ CtxQuiet(1)
        /\ Cardinality(Succeeded(1)) >= Quorum) => ret[1] = "nil"

\* C5: a Release whose context has not fired, and to which at least quorum
\* stores answered 1, returns nil.
C5_ReleaseComplete ==
    (op[1] = "Release" /\ Returned(1) /\ CtxQuiet(1)
        /\ Cardinality(Succeeded(1)) >= Quorum) => ret[1] = "nil"

\* C6: a Release returns nil only if at least quorum stores answered 1; a
\* Release to which fewer than quorum stores answered 1, and whose context
\* has not fired, returns ErrUnableToReleaseLock.
C6_ReleaseSound ==
    \A r \in Rounds : op[r] = "Release" =>
        /\ ret[r] = "nil" => Cardinality(Succeeded(r)) >= Quorum
        /\ (Returned(r) /\ CtxQuiet(r) /\ Cardinality(Succeeded(r)) < Quorum)
              => ret[r] = ErrUnableToReleaseLock

C6_Witness ==
    /\ op[1] = "Release"
    /\ n = 3
    /\ Cardinality(Succeeded(1)) = 1
    /\ CtxQuiet(1)
    /\ ret[1] = ErrUnableToReleaseLock

\* C7: a call with a context without deadline has returned
\* ErrContextWithDeadlineNeeded, has started no goroutine and has made no
\* store call; the step that makes the call leaves the gate and the stores
\* as they are.
C7_NoDeadline ==
    /\ [](\A r \in Rounds : (op[r] # "none" /\ ~deadline[r]) =>
            /\ Returned(r)
            /\ ret[r] = ErrContextWithDeadlineNeeded
            /\ obs[r] = "none"
            /\ waiter[r] = "none"
            /\ \A s \in AllStores : wpc[r][s] = "none" /\ wval[r][s] = "none")
    /\ [][\A r \in Rounds : (op[r] = "none" /\ op'[r] # "none" /\ ~deadline'[r])
            => (requestSem' = requestSem /\ store' = store)]_vars

C7_Witness ==
    /\ op[1] = "Acquire"
    /\ ~deadline[1]
    /\ ret[1] = ErrContextWithDeadlineNeeded
    /\ n = 3

\* C8: an Acquire with a deadline returns ErrUnableToAcquireLock unless its
\* context fires or quorum stores answer true; and when it returns that error
\* every worker of the round has finished.
C8_NoQuorumReturns ==
    /\ [](ret[1] = ErrUnableToAcquireLock => AllWorkersDone(1))
    /\ (op[1] = "Acquire" /\ deadline[1]) ~>
            \/ ret[1] = ErrUnableToAcquireLock
            \/ ctxDone[1]
            \/ Cardinality(Succeeded(1)) >= Quorum

C8_Witness ==
    /\ ret[1] = ErrUnableToAcquireLock
    /\ n = 3
    /\ Cardinality(Succeeded(1)) = 1
    /\ ~ctxDone[1]
    /\ AllWorkersDone(1)

\* C9: a call whose context fired while the tally was below quorum and a
\* worker had not finished does not return the quorum-not-reached error.
C9_CtxError ==
    \A r \in Rounds : (Returned(r) /\ ctxEarly[r]) =>
        ret[r] \notin {ErrUnableToAcquireLock, ErrUnableToReleaseLock}

\* C10: a Release called after Acquire returned nil, with every store
\* answering and the context not firing, returns nil.
C10_RoundTrip ==
    (op[2] = "Release" /\ Returned(2)) => ret[2] = "nil"

\* Workers that have taken a permit of the gate and have not sent it back.
Holders == {w \in Rounds \X AllStores :
              wpc[w[1]][w[2]] \in {"load", "call", "send", "add", "put", "closedone"}}

\* Workers inside their store call.
InCall == {w \in Rounds \X AllStores : wpc[w[1]][w[2]] = "call"}

\* C11: over all rounds on the coordinator, the workers that hold a permit,
\* and so the store calls in flight, are never more than the permits of the
\* gate, which are at most maxConcurrencyAllowed.
C11_GateBound ==
    /\ Cardinality(Holders) <= permits
    /\ Cardinality(InCall) <= permits
    /\ permits <= MaxConcurrencyAllowed

C11_Witness ==
    /\ permits = 1
    /\ requestSem = 0
    /\ \E s \in Clients : wpc[1][s] = "call"
    /\ \E s \in Clients : wpc[2][s] = "sem"
    /\ \E s \in Clients : wpc[1][s] = "finished"

\* C12: the channel done of a round is closed at most once: no goroutine
\* closes it when it is closed already.
C12_DoneClosedOnce == panicked # "close of closed channel"

\* Stores whose answer true the observer of round r has received.
Reported(r) == {s \in Succeeded(r) : wpc[r][s] \in {"put", "finished"}}

\* C13: once quorum stores have accepted and reported, with another store
\* that has not answered and a context that has not fired, Acquire returns
\* nil: it returns nothing else and the process does not end before it
\* returns.
C13_EarlyExit ==
    (/\ op[1] = "Acquire"
     /\ CtxQuiet(1)
     /\ Cardinality(Reported(1)) >= Quorum
     /\ \E s \in Clients : wval[1][s] = "none")
    => /\ Returned(1) => ret[1] = "nil"
       /\ ~Returned(1) => Running

\* C14: the value a call returns, when its context has not fired, is decided
\* by the set of the stores' outcomes alone, whatever the interleaving: nil
\* if at least quorum stores succeeded, the quorum-not-reached error if not.
C14_OrderInsensitive ==
    (/\ Returned(1)
     /\ CtxQuiet(1)
     /\ \A s \in Clients : wval[1][s] # "none")
    => (ret[1] = "nil" <=> Cardinality(Succeeded(1)) >= Quorum)

\* C15: when every worker of every round has finished, the gate holds all
\* its permits again.
C15_PermitsBack ==
    (\A r \in Rounds, s \in AllStores : wpc[r][s] \in {"none", "finished"})
        => requestSem = permits

\* C16: the step of a worker on the short-circuit path (it made no store
\* call), taken when the channel done has been closed already, leaves done
\* as it is and does not end the process.
C16_ShortCircuitBenign ==
    [][\A r \in Rounds, s \in AllStores :
          (wval[r][s] = "none" /\ done[r] /\ WorkerCloseDone(r, s))
              => (done' = done /\ panicked' = "none")]_vars

\* C17: no worker is sending on acquireActionStream when, or after, the
\* deferred close of Acquire has closed it.
C17_NoSendOnClosed ==
    \A r \in Rounds, s \in AllStores : ~(wpc[r][s] = "send" /\ streamClosed[r])

\* C18: with no client, a call with a deadline returns the
\* quorum-not-reached error of its kind unless its context fires; it never
\* returns nil and no store is called or changed.
C18_NoEndpoints ==
    /\ [](n = 0 =>
            /\ ret[1] # "nil"
            /\ (Returned(1) /\ CtxQuiet(1)) =>
                  ret[1] = IF op[1] = "Acquire" THEN ErrUnableToAcquireLock
                           ELSE ErrUnableToReleaseLock
            /\ \A s \in AllStores : wval[1][s] = "none" /\ ~store[s])
    /\ (n = 0 /\ op[1] # "none" /\ deadline[1]) ~> (Returned(1) \/ ctxDone[1])

C18_Witness ==
    /\ n = 0
    /\ op[1] = "Release"
    /\ ret[1] = ErrUnableToReleaseLock
    /\ ~ctxDone[1]
    /\ waiter[1] = "exit"
====
